---- MODULE Spec2Model ----
(***************************************************************************)
(* content-script-activation: the service-worker side                      *)
(* (setupContentScriptActivation / activate / activateContentScript), the  *)
(* content-script side (setupActivation) and the two wire messages.        *)
(*                                                                         *)
(* JavaScript values are records tagged by the field t ("undefined",       *)
(* "string", "array", "object", ...); option values that are either        *)
(* undefined or a primitive are strings, with Undef standing for the       *)
(* JavaScript value undefined.                                             *)
(***************************************************************************)
EXTENDS Integers, Sequences, FiniteSets, TLC

\* ---------------------------------------------------------------- bounds
MaxTriggers == 2      \* invocations of activate in one behaviour
MaxTab == 2           \* tab identifiers are 1..MaxTab
MaxReloads == 1       \* reloads of a tab in one behaviour

\* ---------------------------------------------------------------- values
Undef == "undefined"

KEY == "[content-script-activation]"
TYPE_REQUEST_ACTIVATION == "request-activation"
TYPE_ACTIVATION_SUCCESS == "activation-success"

TabIds == 1..MaxTab
Triggers == 1..MaxTriggers

\* scriptId values an option or an agent may carry
ScriptIds == {Undef, "x"}
\* scriptId values a message on the channel may carry
MessageScriptIds == {Undef, "x", "y"}

\* JavaScript truthiness of the primitive values used as options and results
Truthy(v) == v \notin {Undef, "false", "0", "", "null"}

\* a source item of inject.scripts / inject.styles
Str(s) == [t |-> "string", v |-> s, files |-> <<>>]
Obj(n, fs) == [t |-> "object", v |-> n, files |-> fs]
Arr(items) == [t |-> "array", items |-> items]
Undefined == [t |-> "undefined"]

\* ---------------------------------------------------------------- messages.ts
\* A value travelling on the channel.  obj: it is an object (the `in` operator
\* throws a TypeError on anything else); hasKey: KEY in message; key: message[KEY].
Message(obj, hasKey, key, context, scriptId) ==
  [obj |-> obj, hasKey |-> hasKey, key |-> key, context |-> context,
   scriptId |-> scriptId]

createRequestActivationMessage(context, scriptId) ==
  Message(TRUE, TRUE, TYPE_REQUEST_ACTIVATION, context, scriptId)

createActivationSuccessMessage(scriptId) ==
  Message(TRUE, TRUE, TYPE_ACTIVATION_SUCCESS, Undef, scriptId)

\* `KEY in message` throws unless message is an object
KeyInThrows(message) == ~message.obj

isRequestActivationMessage(message) ==
  message.hasKey /\ message.key = TYPE_REQUEST_ACTIVATION

isActivationSuccessMessage(message) ==
  message.hasKey /\ message.key = TYPE_ACTIVATION_SUCCESS

\* values that are not objects: undefined, null, a string, a number
Primitive == Message(FALSE, FALSE, Undef, Undef, Undef)
\* an application message of another shape
ForeignObject == Message(TRUE, FALSE, Undef, Undef, Undef)
\* an object whose KEY field holds something else
OtherKeyObject == Message(TRUE, TRUE, "other", Undef, Undef)

\* ---------------------------------------------------------------- content-script.ts
\* a listener that answers every activation request, whatever its scriptId
AgentMatches_IgnoringScriptId(message, scriptId) ==
  isRequestActivationMessage(message)

\* the listener's condition: a request whose scriptId strictly equals the agent's
AgentMatches(message, scriptId) ==
  isRequestActivationMessage(message) /\ message.scriptId = scriptId

\* a listener that calls sendResponse before onActivation
Listener_ReplyFirst(message, scriptId, cbThrows) ==
  IF KeyInThrows(message)
  THEN [called |-> FALSE, responded |-> FALSE, threw |-> TRUE]
  ELSE IF AgentMatches(message, scriptId)
       THEN [called |-> TRUE, responded |-> TRUE, threw |-> cbThrows]
       ELSE [called |-> FALSE, responded |-> FALSE, threw |-> FALSE]

\* One run of the listener registered by setupActivation(onActivation, scriptId)
\* on `message`; cbThrows: onActivation throws on this call.
\*   called: onActivation was invoked; responded: sendResponse was called;
\*   threw: the listener ended with an exception.
Listener(message, scriptId, cbThrows) ==
  IF KeyInThrows(message)
  THEN [called |-> FALSE, responded |-> FALSE, threw |-> TRUE]
  ELSE IF AgentMatches(message, scriptId)
       THEN IF cbThrows
            THEN [called |-> TRUE, responded |-> FALSE, threw |-> TRUE]
            ELSE [called |-> TRUE, responded |-> TRUE, threw |-> FALSE]
       ELSE [called |-> FALSE, responded |-> FALSE, threw |-> FALSE]

\* ---------------------------------------------------------------- service worker
\* the outcome of browser.tabs.sendMessage
Pending == [t |-> "pending", message |-> Primitive]
Rejected == [t |-> "rejected", message |-> Primitive]
Resolved(m) == [t |-> "value", message |-> m]
NoProbe == [t |-> "none", message |-> Primitive]

\* the message activateContentScript sends: createRequestActivationMessage is
\* called with the context alone, so its scriptId parameter is undefined
ProbeMessage(context, scriptId) ==
  createRequestActivationMessage(context, Undef)

\* activateContentScript that never reports the script as injected
activateContentScript_NeverInjected(response, scriptId) ==
  [isInjected |-> FALSE, error |-> FALSE]

\* activateContentScript without its try/catch: a rejected sendMessage and the
\* TypeError of `KEY in response` reach the caller
activateContentScript_NoCatch(response, scriptId) ==
  IF response.t = "rejected" \/ KeyInThrows(response.message)
  THEN [isInjected |-> FALSE, error |-> TRUE]
  ELSE [isInjected |-> (isActivationSuccessMessage(response.message)
                          /\ response.message.scriptId = scriptId),
        error |-> FALSE]

\* the try block of activateContentScript: a rejected sendMessage and a TypeError
\* of isActivationSuccessMessage both end in the catch clause
activateContentScript(response, scriptId) ==
  IF response.t = "rejected"
  THEN [isInjected |-> FALSE, error |-> FALSE]
  ELSE IF KeyInThrows(response.message)
       THEN [isInjected |-> FALSE, error |-> FALSE]
       ELSE IF isActivationSuccessMessage(response.message)
            THEN [isInjected |-> (response.message.scriptId = scriptId),
                  error |-> FALSE]
            ELSE [isInjected |-> FALSE, error |-> FALSE]

\* options shorthand
InjectOptions(scripts, styles, before, after) ==
  [t |-> "object", scripts |-> scripts, styles |-> styles,
   beforeInjection |-> before, afterInjection |-> after]

Options(filterTab, inject, scriptId, injectOnClick) ==
  [t |-> "object", filterTab |-> filterTab, inject |-> inject,
   scriptId |-> scriptId, injectOnClick |-> injectOnClick]

resolvedOptions(options) ==
  IF options.t \in {"string", "array"}
  THEN Options(FALSE, InjectOptions(options, Undefined, FALSE, FALSE), Undef, Undef)
  ELSE options

\* injection shorthand
resolvedInject(inject) ==
  IF inject.t \in {"string", "array"}
  THEN InjectOptions(inject, Undefined, FALSE, FALSE)
  ELSE inject

\* `if (scripts)`: undefined and the empty string are falsy
SourcesTruthy(sources) ==
  /\ sources.t # "undefined"
  /\ ~(sources.t = "string" /\ sources.v = "")

IsString(item) == item.t = "string"
IsNotString(item) == item.t # "string"

\* one files-list dispatch per string instead of one for all of them
allInjections_PerString(sources) ==
  IF ~SourcesTruthy(sources) THEN <<>>
  ELSE LET all == IF sources.t = "array" THEN sources.items ELSE <<sources>>
       IN  [k \in 1..Len(all) |->
              IF all[k].t = "string"
              THEN [v |-> "files", files |-> <<all[k].v>>]
              ELSE [v |-> all[k].v, files |-> all[k].files]]

\* the dispatches of one source list: every object on its own, then the strings
\* merged into one files list
allInjections(sources) ==
  IF ~SourcesTruthy(sources) THEN <<>>
  ELSE LET all == IF sources.t = "array" THEN sources.items ELSE <<sources>>
           strs == SelectSeq(all, IsString)
           objs == SelectSeq(all, IsNotString)
           stringFiles == [k \in 1..Len(strs) |-> strs[k].v]
       IN  [k \in 1..Len(objs) |-> [v |-> objs[k].v, files |-> objs[k].files]]
           \o (IF Len(strs) > 0
               THEN << [v |-> "files", files |-> stringFiles] >>
               ELSE <<>>)

Dispatch(kind, payload) ==
  [kind |-> kind, payload |-> payload, status |-> "pending"]

\* injectionPromises: the script dispatches, then the style dispatches
injectionPromises(inject) ==
  LET s == allInjections(inject.scripts)
      c == allInjections(inject.styles)
  IN  [k \in 1..Len(s) |-> Dispatch("executeScript", s[k])]
      \o [k \in 1..Len(c) |-> Dispatch("insertCSS", c[k])]

\* Promise.allSettled in place of Promise.all: a rejection counts as settled
PromiseAll_Settled(disp) ==
  IF \A k \in 1..Len(disp) : disp[k].status # "pending" THEN "fulfilled"
  ELSE "pending"

\* Promise.all over the dispatches
PromiseAll(disp) ==
  IF \E k \in 1..Len(disp) : disp[k].status = "rejected" THEN "rejected"
  ELSE IF \A k \in 1..Len(disp) : disp[k].status = "fulfilled" THEN "fulfilled"
  ELSE "pending"

\* activate without the guard on tab.id
NoTabId_Never(tab) == FALSE

\* `if (!tab.id) return`: an absent id (0 stands for it) stops the trigger
NoTabId(tab) == tab.id = 0

\* activate without the filterTab guard
FilteredOut_Never(filterTab, result) == FALSE

\* `if (filterTab && !filterTab(tab)) return`; result: what filterTab returned
FilteredOut(filterTab, result) == filterTab /\ ~Truthy(result)

\* ---------------------------------------------------------------- configurations
\* "a.js" is the content script: running it calls setupActivation(onActivation,
\* content.scriptId); "lib.js" and "b.css" register nothing.
InjectSet ==
  { Str("a.js"),
    InjectOptions(Arr(<<Str("a.js")>>), Str("b.css"), TRUE, TRUE),
    InjectOptions(Arr(<<Obj("o1", <<"lib.js">>), Str("lib.js")>>), Undefined,
                  FALSE, TRUE) }

\* the arguments of setupContentScriptActivation: the two shorthand forms, the
\* README's plain forms with every injectOnClick, and the click-driven forms
\* with a filterTab predicate
OptionsSet ==
  { Str("a.js"), Arr(<<Str("a.js"), Str("lib.js")>>) }
  \cup { Options(FALSE, Str("a.js"), sid, ioc) :
           sid \in ScriptIds, ioc \in {Undef, "true", "false"} }
  \cup { Options(TRUE, inj, sid, "true") :
           inj \in InjectSet, sid \in ScriptIds }

\* what a filterTab predicate may return
FilterResults == {"true", "false", Undef}

\* the descriptors a trigger may carry: a tabs.Tab (id, possibly absent) or the
\* {tabId} target of the README's manual activation
TabObjects == [id : 0..MaxTab, tabId : {0}]
TargetObjects == [id : {0}, tabId : TabIds]

\* what a channel failure or another listener of the tab may produce as the
\* outcome of a probe
FaultResponses ==
  { Rejected, Resolved(Primitive), Resolved(ForeignObject),
    Resolved(OtherKeyObject),
    Resolved(createRequestActivationMessage(Undef, Undef)),
    Resolved(createActivationSuccessMessage("y")) }

\* messages any part of the extension may send to a tab
ChannelMessages ==
  { Primitive, ForeignObject, OtherKeyObject }
  \cup { createRequestActivationMessage(Undef, sid) : sid \in MessageScriptIds }
  \cup { createActivationSuccessMessage(Undef) }

\* ---------------------------------------------------------------- state
VARIABLES
  options,    \* the argument of setupContentScriptActivation
  content,    \* the content script: the scriptId it gives setupActivation
  setup,      \* the result of setupContentScriptActivation
  trig,       \* the invocations of activate
  agents,     \* per tab, the scriptIds of the listeners registered, in order
  handled,    \* the listener runs of the latest message delivery
  faults,     \* what the environment has done so far
  reloads     \* number of tab reloads

vars == <<options, content, setup, trig, agents, handled, faults, reloads>>

IdleTrigger ==
  [pc |-> "idle", via |-> "", tab |-> [id |-> 0, tabId |-> 0], tabId |-> 0,
   resp |-> NoProbe, log |-> <<>>, disp |-> <<>>, cb |-> 0, exit |-> "",
   live |-> {}, filt |-> "", pf |-> 0, to |-> 0, epoch |-> 0,
   thrown |-> FALSE]

Init ==
  /\ options \in OptionsSet
  /\ content \in [scriptId : ScriptIds]
  /\ setup = [called |-> FALSE, listener |-> FALSE, returned |-> "nothing"]
  /\ trig = [i \in Triggers |-> IdleTrigger]
  /\ agents = [tb \in TabIds |-> <<>>]
  /\ handled = <<>>
  /\ faults = {}
  /\ reloads = 0

cfg == resolvedOptions(options)
inject == resolvedInject(cfg.inject)

Running(t) == t.pc \notin {"idle", "done", "failed"}

\* ---------------------------------------------------------------- setup
\* `if (injectOnClick) browser.action.onClicked.addListener(activate);
\*  else return activate;`
ClickRegistered(injectOnClick) == Truthy(injectOnClick)

setupContentScriptActivation ==
  /\ ~setup.called
  /\ setup' = [called |-> TRUE,
               listener |-> ClickRegistered(cfg.injectOnClick),
               returned |-> IF ClickRegistered(cfg.injectOnClick)
                            THEN "nothing" ELSE "function"]
  /\ UNCHANGED <<options, content, trig, agents, handled, faults, reloads>>

\* ---------------------------------------------------------------- activate
\* browser.tabs.sendMessage(context.tabId, createRequestActivationMessage(context))
SendProbe(t, pc) ==
  [t EXCEPT !.pc = pc, !.resp = Pending, !.log = Append(@, "probe"),
            !.to = t.tabId]

\* lines 192-196: the afterInjection hook, or straight to the second probe
AfterInjection(t) ==
  IF inject.afterInjection
  THEN [t EXCEPT !.pc = "after", !.log = Append(@, "afterInjection")]
  ELSE SendProbe(t, "probe2")

\* a dispatch addressed to a fixed tab
Targeted_FirstTab(d, tabId) ==
  [kind |-> d.kind, payload |-> d.payload, status |-> d.status, target |-> 1]

\* `target: { tabId }`: the dispatch is addressed to the tab of the trigger
Targeted(d, tabId) ==
  [kind |-> d.kind, payload |-> d.payload, status |-> d.status,
   target |-> tabId]

\* lines 158-190: every dispatch is started, then Promise.all is awaited
Injection(t) ==
  LET d == [k \in 1..Len(injectionPromises(inject)) |->
              Targeted(injectionPromises(inject)[k], t.tabId)]
      u == [t EXCEPT !.disp = d,
                     !.log = @ \o [k \in 1..Len(d) |-> d[k].kind]]
  IN  IF PromiseAll(d) = "fulfilled"
      THEN AfterInjection(u)
      ELSE [u EXCEPT !.pc = "inject"]

\* an activate that remembers the tabs it has injected into
BeforeInjection_Remembering(t) ==
  IF \E j \in Triggers : trig[j].tabId = t.tabId /\ trig[j].exit = "injected"
  THEN [t EXCEPT !.pc = "done", !.exit = "active"]
  ELSE IF inject.beforeInjection
       THEN [t EXCEPT !.pc = "before", !.log = Append(@, "beforeInjection")]
       ELSE Injection(t)

\* an activate that injects only while no other invocation is injecting
BeforeInjection_SingleFlight(t) ==
  IF \E j \in Triggers : trig[j].pc \in {"before", "inject", "after", "probe2"}
  THEN [t EXCEPT !.pc = "done", !.exit = "active"]
  ELSE IF inject.beforeInjection
       THEN [t EXCEPT !.pc = "before", !.log = Append(@, "beforeInjection")]
       ELSE Injection(t)

\* lines 147-156: the beforeInjection hook, or straight to the dispatches
BeforeInjection(t) ==
  IF inject.beforeInjection
  THEN [t EXCEPT !.pc = "before", !.log = Append(@, "beforeInjection")]
  ELSE Injection(t)

\* the listeners registered in a tab (none where there is no such tab)
ListenersOf(tabId) == IF tabId \in DOMAIN agents THEN agents[tabId] ELSE <<>>

\* lines 131-142: the synchronous start of activate(tab); result: what
\* filterTab returns when it is called (kept in filt)
Activate(i, tab, via, result) ==
  LET called == cfg.filterTab /\ ~NoTabId(tab)
      t == [IdleTrigger EXCEPT !.via = via, !.tab = tab, !.tabId = tab.id,
                               !.filt = IF called THEN result ELSE "",
                               !.epoch = reloads] IN
  /\ trig[i].pc = "idle"
  /\ IF i = 1 THEN TRUE ELSE trig[i - 1].pc # "idle"
  /\ trig' = [trig EXCEPT ![i] =
       IF NoTabId(tab) THEN [t EXCEPT !.pc = "done", !.exit = "noid"]
       ELSE IF FilteredOut(cfg.filterTab, result)
            THEN [t EXCEPT !.pc = "done", !.exit = "filter"]
            ELSE [SendProbe(t, "probe1") EXCEPT
                    !.live = {ListenersOf(tab.id)[k] :
                                k \in 1..Len(ListenersOf(tab.id))}]]
  /\ faults' = faults \cup
       (IF \E j \in Triggers : Running(trig[j]) THEN {"overlap"} ELSE {})
  /\ UNCHANGED <<options, content, setup, agents, handled, reloads>>

\* the browser fires action.onClicked with the clicked tab
Click(i) ==
  /\ setup.listener
  /\ \E tab \in TabObjects, result \in FilterResults :
       Activate(i, tab, "click", result)

\* the extension calls the function setup returned
Manual(i) ==
  /\ setup.returned = "function"
  /\ \E tab \in TabObjects \cup TargetObjects, result \in FilterResults :
       Activate(i, tab, "manual", result)

\* ---------------------------------------------------------------- the channel
\* the listeners of a tab run on a message, in registration order
Runs(listeners, message, cbThrows) ==
  [k \in 1..Len(listeners) |->
     [message |-> message, scriptId |-> listeners[k],
      run |-> Listener(message, listeners[k], cbThrows)]]

Calls(runs) == Cardinality({k \in 1..Len(runs) : runs[k].run.called})
Responders(runs) == {k \in 1..Len(runs) : runs[k].run.responded}
FirstResponder(runs) ==
  CHOOSE k \in Responders(runs) : \A j \in Responders(runs) : k <= j

\* what sendMessage settles to: a rejection when nothing listens, the first
\* sendResponse when a listener answers; when the listeners stay silent the
\* browser either resolves with undefined or rejects
Settlements(runs) ==
  IF Len(runs) = 0 THEN {Rejected}
  ELSE IF Responders(runs) # {}
       THEN {Resolved(createActivationSuccessMessage(
                         runs[FirstResponder(runs)].scriptId))}
       ELSE {Rejected, Resolved(Primitive)}

\* the probe of trigger i reaches the listeners of its tab
Deliver(i) ==
  /\ trig[i].resp = Pending
  /\ \E cbThrows \in BOOLEAN :
       LET runs == Runs(ListenersOf(trig[i].to),
                        ProbeMessage(trig[i].tab, cfg.scriptId), cbThrows)
       IN  /\ cbThrows => Calls(runs) > 0
           /\ \E r \in Settlements(runs) :
                trig' = [trig EXCEPT ![i].resp = r, ![i].cb = @ + Calls(runs),
                                     ![i].thrown = @ \/ (cbThrows /\
                                                  trig[i].pc = "probe1")]
           /\ handled' = runs
           /\ faults' = faults \cup (IF cbThrows THEN {"callback"} ELSE {})
  /\ UNCHANGED <<options, content, setup, agents, reloads>>

\* the probe of trigger i fails on the channel (timeout, transport error), or
\* a listener of another script answers it
ChannelFailure(i) ==
  /\ trig[i].resp = Pending
  /\ \E r \in FaultResponses : trig' = [trig EXCEPT ![i].resp = r]
  /\ faults' = faults \cup {"channel"}
  /\ UNCHANGED <<options, content, setup, agents, handled, reloads>>

\* some other part of the extension sends a message to a tab (the listeners
\* keep no state, so the message is taken between the triggers)
ChannelMessage(tb) ==
  /\ agents[tb] # <<>>
  /\ \A i \in Triggers : ~Running(trig[i])
  /\ \E m \in ChannelMessages :
       handled' = Runs(agents[tb], m, FALSE)
  /\ UNCHANGED <<options, content, setup, trig, agents, faults, reloads>>

\* the tab is reloaded: its listeners are gone
Reload(tb) ==
  /\ reloads < MaxReloads
  /\ agents[tb] # <<>>
  /\ reloads' = reloads + 1
  /\ agents' = [agents EXCEPT ![tb] = <<>>]
  /\ faults' = faults \cup
       (IF \E j \in Triggers : Running(trig[j]) THEN {"midreload"} ELSE {})
  /\ UNCHANGED <<options, content, setup, trig, handled>>

\* ---------------------------------------------------------------- activate, resumed
\* lines 139-156: the first probe has settled
Probe1Return(i) ==
  /\ trig[i].pc = "probe1"
  /\ trig[i].resp.t \in {"rejected", "value"}
  /\ LET r == activateContentScript(trig[i].resp, cfg.scriptId)
         t == [trig[i] EXCEPT !.resp = NoProbe,
                              !.pf = IF r.isInjected THEN @ ELSE @ + 1]
     IN  trig' = [trig EXCEPT ![i] =
           IF r.error THEN [t EXCEPT !.pc = "failed", !.exit = "probe"]
           ELSE IF r.isInjected THEN [t EXCEPT !.pc = "done", !.exit = "active"]
           ELSE BeforeInjection(t)]
  /\ UNCHANGED <<options, content, setup, agents, handled, faults, reloads>>

\* the beforeInjection hook resolves, or rejects
BeforeReturn(i) ==
  /\ trig[i].pc = "before"
  /\ \/ trig' = [trig EXCEPT ![i] = Injection(trig[i])]
     \/ trig' = [trig EXCEPT ![i].pc = "failed", ![i].exit = "hook"]
  /\ UNCHANGED <<options, content, setup, agents, handled, faults, reloads>>

\* the listeners a dispatch registers in the tab: one per run of "a.js"
Registers(d) ==
  IF d.kind = "executeScript"
  THEN SelectSeq(d.payload.files, LAMBDA f : f = "a.js")
  ELSE <<>>

\* the browser applies dispatch k of trigger i
ExecuteDispatch(i, k) ==
  /\ k \in 1..Len(trig[i].disp)
  /\ trig[i].disp[k].status = "pending"
  /\ trig' = [trig EXCEPT ![i].disp[k].status = "fulfilled"]
  /\ trig[i].disp[k].target \in DOMAIN agents
  /\ agents' = [agents EXCEPT ![trig[i].disp[k].target] =
       @ \o [n \in 1..Len(Registers(trig[i].disp[k])) |-> content.scriptId]]
  /\ UNCHANGED <<options, content, setup, handled, faults, reloads>>

\* the browser rejects dispatch k of trigger i
RejectDispatch(i, k) ==
  /\ k \in 1..Len(trig[i].disp)
  /\ trig[i].disp[k].status = "pending"
  /\ trig' = [trig EXCEPT ![i].disp[k].status = "rejected"]
  /\ UNCHANGED <<options, content, setup, agents, handled, faults, reloads>>

\* an activate that does not await the dispatches: it goes on while some of
\* them are still pending
InjectionReturn_NoAwait(i) ==
  /\ trig[i].pc = "inject"
  /\ trig' = [trig EXCEPT ![i] = AfterInjection(trig[i])]
  /\ UNCHANGED <<options, content, setup, agents, handled, faults, reloads>>

\* lines 190-196: Promise.all has settled
InjectionReturn(i) ==
  /\ trig[i].pc = "inject"
  /\ PromiseAll(trig[i].disp) # "pending"
  /\ trig' = [trig EXCEPT ![i] =
       IF PromiseAll(trig[i].disp) = "rejected"
       THEN [trig[i] EXCEPT !.pc = "failed", !.exit = "dispatch"]
       ELSE AfterInjection(trig[i])]
  /\ UNCHANGED <<options, content, setup, agents, handled, faults, reloads>>

\* the afterInjection hook resolves, or rejects
AfterReturn(i) ==
  /\ trig[i].pc = "after"
  /\ \/ trig' = [trig EXCEPT ![i] = SendProbe(trig[i], "probe2")]
     \/ trig' = [trig EXCEPT ![i].pc = "failed", ![i].exit = "hook"]
  /\ UNCHANGED <<options, content, setup, agents, handled, faults, reloads>>

\* an activate that probes again when the second probe was unsuccessful
Probe2Return_Retry(i) ==
  /\ trig[i].pc = "probe2"
  /\ trig[i].resp.t \in {"rejected", "value"}
  /\ LET r == activateContentScript(trig[i].resp, cfg.scriptId)
         t == [trig[i] EXCEPT !.resp = NoProbe,
                              !.pf = IF r.isInjected THEN @ ELSE 2]
     IN  trig' = [trig EXCEPT ![i] =
           IF r.isInjected \/ Len(t.log) > 6
           THEN [t EXCEPT !.pc = "done", !.exit = "injected"]
           ELSE SendProbe(t, "probe2")]
  /\ UNCHANGED <<options, content, setup, agents, handled, faults, reloads>>

\* line 196: the second probe has settled; its result is dropped
Probe2Return(i) ==
  /\ trig[i].pc = "probe2"
  /\ trig[i].resp.t \in {"rejected", "value"}
  /\ LET r == activateContentScript(trig[i].resp, cfg.scriptId)
         t == [trig[i] EXCEPT !.resp = NoProbe,
                              !.pf = IF r.isInjected THEN @ ELSE @ + 1]
     IN  trig' = [trig EXCEPT ![i] =
           IF r.error THEN [t EXCEPT !.pc = "failed", !.exit = "probe"]
           ELSE [t EXCEPT !.pc = "done", !.exit = "injected"]]
  /\ UNCHANGED <<options, content, setup, agents, handled, faults, reloads>>

Next ==
  \/ setupContentScriptActivation
  \/ \E i \in Triggers : Click(i)
  \/ \E i \in Triggers : Manual(i)
  \/ \E i \in Triggers : Deliver(i)
  \/ \E i \in Triggers : ChannelFailure(i)
  \/ \E tb \in TabIds : ChannelMessage(tb)
  \/ \E tb \in TabIds : Reload(tb)
  \/ \E i \in Triggers : Probe1Return(i)
  \/ \E i \in Triggers : BeforeReturn(i)
  \/ \E i \in Triggers, k \in 1..2 : ExecuteDispatch(i, k)
  \/ \E i \in Triggers, k \in 1..2 : RejectDispatch(i, k)
  \/ \E i \in Triggers : InjectionReturn(i)
  \/ \E i \in Triggers : AfterReturn(i)
  \/ \E i \in Triggers : Probe2Return(i)

Spec == Init /\ [][Next]_vars

\* ---------------------------------------------------------------- properties
Count(log, e) == Cardinality({k \in 1..Len(log) : log[k] = e})
Probes(t) == Count(t.log, "probe")
Hooks(t) == Count(t.log, "beforeInjection") + Count(t.log, "afterInjection")
Dispatched(t) == Count(t.log, "executeScript") + Count(t.log, "insertCSS")
Started(t) == t.pc # "idle"
\* the trigger passed the guards of activate and sent its first probe
Effective(t) == Started(t) /\ t.exit \notin {"noid", "filter"}
\* the trigger did nothing at all
NoEffect(t) ==
  t.pc = "done" /\ t.log = <<>> /\ t.disp = <<>> /\ t.cb = 0 /\ t.resp = NoProbe

\* the listeners one injection round registers
RoundRegisters ==
  LET d == injectionPromises(inject)
      F[k \in 0..Len(d)] == IF k = 0 THEN 0 ELSE F[k - 1] + Len(Registers(d[k]))
  IN  F[Len(d)]

\* nothing went wrong around the triggers: none overlapped another, no channel
\* failure, no throwing callback, no reload, no rejected hook or dispatch
Undisturbed ==
  /\ faults = {}
  /\ reloads = 0
  /\ \A i \in Triggers :
       /\ trig[i].exit \notin {"hook", "dispatch"}
       /\ \A k \in 1..Len(trig[i].disp) : trig[i].disp[k].status # "rejected"

\* the effective triggers on tab tb, and the first of them
On(tb) == {i \in Triggers : Effective(trig[i]) /\ trig[i].tabId = tb}
First(tb) == CHOOSE i \in On(tb) : \A j \in On(tb) : i <= j

\* C1: non-overlapping triggers on a cold tab, default scriptId on both sides,
\* the injected script registering one agent, no reload: only the first
\* trigger injects (one round), and every finished trigger has invoked the
\* activation callback exactly once.
C1_InjectOnceActivateEveryTime ==
  (Undisturbed /\ cfg.scriptId = Undef /\ content.scriptId = Undef
     /\ RoundRegisters = 1)
  => \A tb \in TabIds : \A i \in On(tb) :
       /\ i # First(tb) =>
            /\ Dispatched(trig[i]) = 0 /\ Hooks(trig[i]) = 0
            /\ Probes(trig[i]) = 1
       /\ trig[i].pc = "done" =>
            /\ trig[i].cb = 1
            /\ i = First(tb) =>
                 /\ trig[i].exit = "injected"
                 /\ Dispatched(trig[i]) = Len(injectionPromises(inject))

C1_Witness ==
  /\ Undisturbed /\ cfg.scriptId = Undef /\ content.scriptId = Undef
  /\ RoundRegisters = 1
  /\ trig[1].pc = "done" /\ trig[1].exit = "injected" /\ trig[1].cb = 1
  /\ trig[2].pc = "done" /\ trig[2].exit = "active" /\ trig[2].cb = 1
  /\ trig[1].tabId = trig[2].tabId

\* C2: scriptId "x" on both sides and a live agent "x" in the tab: the trigger
\* is one successful probe, no injection, one callback invocation.
C2_TaggedLiveAgentSingleProbe ==
  (Undisturbed /\ cfg.scriptId = "x")
  => \A i \in Triggers :
       (Effective(trig[i]) /\ "x" \in trig[i].live /\ trig[i].pc = "done")
       => /\ trig[i].exit = "active"
          /\ Probes(trig[i]) = 1
          /\ Dispatched(trig[i]) = 0
          /\ trig[i].cb = 1

\* C3: a listener whose scriptId differs from the scriptId of a request
\* neither answers the request nor invokes its callback.
C3_MismatchIgnored ==
  \A k \in 1..Len(handled) :
    (isRequestActivationMessage(handled[k].message)
       /\ handled[k].message.scriptId # handled[k].scriptId)
    => ~handled[k].run.called /\ ~handled[k].run.responded

C3_Witness ==
  \E k \in 1..Len(handled) :
    /\ isRequestActivationMessage(handled[k].message)
    /\ handled[k].message.scriptId = "x"
    /\ handled[k].scriptId = Undef
    /\ ~handled[k].run.called

\* C4: the Controller has scriptId "x" and the only agent of the tab has none:
\* the agent ignores the probe (no callback), the probe is unsuccessful and
\* the injection proceeds.
C4_UntaggedAgentIgnoresTaggedProbe ==
  (Undisturbed /\ cfg.scriptId = "x")
  => \A i \in Triggers :
       (Effective(trig[i]) /\ trig[i].live = {Undef}
          /\ Probes(trig[i]) = 1 /\ trig[i].resp.t # "pending")
       => /\ trig[i].cb = 0
          /\ trig[i].resp.t # "value"
          /\ trig[i].exit # "active"

\* C5: injectOnClick absent counts as true: setup registers the click handler
\* and returns nothing; only injectOnClick=false returns the function.
C5_InjectOnClickDefaultsTrue ==
  setup.called
  => IF cfg.injectOnClick = "false"
     THEN ~setup.listener /\ setup.returned = "function"
     ELSE setup.listener /\ setup.returned = "nothing"

\* C6: the function setup returns, called with {tabId: T}, runs the probe
\* sequence against tab T.
C6_ManualTargetIsProbed ==
  \A i \in Triggers :
    (trig[i].via = "manual" /\ trig[i].tab.tabId \in TabIds
       /\ trig[i].pc = "done")
    => Probes(trig[i]) >= 1 /\ trig[i].tabId = trig[i].tab.tabId

\* C7: a trigger whose descriptor carries no identifier completes without
\* any effect: no message, no hook, no dispatch.
C7_NoIdentifierNoEffect ==
  \A i \in Triggers :
    (Started(trig[i]) /\ trig[i].tab.id = 0 /\ trig[i].tab.tabId = 0)
    => NoEffect(trig[i])

C7_Witness ==
  \E i \in Triggers :
    /\ Started(trig[i]) /\ trig[i].tab.id = 0 /\ trig[i].tab.tabId = 0
    /\ trig[i].pc = "done"

\* C8: a filterTab predicate returning a falsy value aborts the trigger before
\* the probe, with no effect; a truthy value, or no predicate, lets the
\* trigger send its probe.
C8_FilterTabGuards ==
  \A i \in Triggers :
    (Started(trig[i]) /\ trig[i].tab.id # 0)
    => IF cfg.filterTab /\ ~Truthy(trig[i].filt)
       THEN NoEffect(trig[i])
       ELSE Probes(trig[i]) >= 1 /\ trig[i].log[1] = "probe"

C8_Witness ==
  \E i, j \in Triggers :
    /\ cfg.filterTab
    /\ Started(trig[i]) /\ trig[i].tab.id # 0 /\ trig[i].filt = Undef
    /\ trig[i].pc = "done"
    /\ Started(trig[j]) /\ trig[j].filt = "true" /\ Probes(trig[j]) >= 1

\* C9: an unsuccessful probe never fails the trigger: after the first probe
\* the injection has begun, after the second the trigger is complete.
InjectionBegun(t) ==
  \/ Hooks(t) > 0 \/ Dispatched(t) > 0 \/ Probes(t) = 2
  \/ t.exit \in {"injected", "hook", "dispatch"}

C9_ProbeFailureSwallowed ==
  \A i \in Triggers :
    /\ trig[i].exit # "probe"
    /\ trig[i].pc = "failed" => trig[i].exit \in {"hook", "dispatch"}
    /\ trig[i].pf >= 1 => InjectionBegun(trig[i])
    /\ trig[i].pf = 2 => trig[i].pc = "done" /\ trig[i].exit = "injected"

C9_Witness ==
  \E i \in Triggers :
    /\ "channel" \in faults
    /\ trig[i].pf = 2 /\ trig[i].pc = "done"

\* C10: a rejected script or style dispatch rejects the trigger: the
\* afterInjection hook does not run, no second probe is sent, nothing is
\* dispatched again.
C10_DispatchRejectionPropagates ==
  \A i \in Triggers :
    (\E k \in 1..Len(trig[i].disp) : trig[i].disp[k].status = "rejected")
    => /\ trig[i].pc \in {"inject", "failed"}
       /\ trig[i].pc = "failed" => trig[i].exit = "dispatch"
       /\ Count(trig[i].log, "afterInjection") = 0
       /\ Probes(trig[i]) = 1
       /\ Dispatched(trig[i]) = Len(injectionPromises(inject))

C10_Witness ==
  \E i \in Triggers :
    /\ trig[i].pc = "failed" /\ trig[i].exit = "dispatch"
    /\ \E k \in 1..Len(trig[i].disp) : trig[i].disp[k].status = "rejected"

\* C11: a message that is not a well-formed activation request is ignored by
\* the listener: no response, no callback, no exception.
WellFormedRequest(message) ==
  message.obj /\ isRequestActivationMessage(message)

C11_ForeignMessageIgnored ==
  \A k \in 1..Len(handled) :
    ~WellFormedRequest(handled[k].message)
    => /\ ~handled[k].run.called
       /\ ~handled[k].run.responded
       /\ ~handled[k].run.threw

\* C12: triggers are not mutually excluded: a trigger whose first probe was
\* unsuccessful dispatches its own injection round whatever the other
\* triggers are doing, so two overlapping triggers on a cold tab both inject.
BeforeHookPending(t) ==
  t.pc = "before" \/ (t.exit = "hook" /\ Dispatched(t) = 0)

C12_NoMutualExclusion ==
  \A i \in Triggers :
    (trig[i].pf >= 1 /\ ~BeforeHookPending(trig[i]))
    => /\ Dispatched(trig[i]) = Len(injectionPromises(inject))
       /\ Len(trig[i].disp) = Len(injectionPromises(inject))

C12_Witness ==
  \E i, j \in Triggers :
    /\ i # j /\ "overlap" \in faults /\ faults \subseteq {"overlap"}
    /\ trig[i].tabId = trig[j].tabId
    /\ trig[i].live = {} /\ trig[j].live = {}
    /\ trig[i].pc = "inject" /\ trig[j].pc = "inject"
    /\ Dispatched(trig[i]) > 0 /\ Dispatched(trig[j]) > 0

\* C13: every probe carries the scriptId the Controller was configured with.
C13_ProbeCarriesScriptId ==
  \A i \in Triggers :
    trig[i].resp = Pending
    => ProbeMessage(trig[i].tab, cfg.scriptId).scriptId = cfg.scriptId

\* C14: the steps of an injecting trigger come in the order first probe,
\* beforeInjection, every dispatch, afterInjection, second probe, each one
\* starting only when the one before has completed.
IsPrefix(p, q) == Len(p) <= Len(q) /\ \A k \in 1..Len(p) : p[k] = q[k]

\* the order the claim gives for the configured hooks and sources
StepOrder ==
  <<"probe">>
  \o (IF inject.beforeInjection THEN <<"beforeInjection">> ELSE <<>>)
  \o [k \in 1..Len(allInjections(inject.scripts)) |-> "executeScript"]
  \o [k \in 1..Len(allInjections(inject.styles)) |-> "insertCSS"]
  \o (IF inject.afterInjection THEN <<"afterInjection">> ELSE <<>>)
  \o <<"probe">>

C14_StepOrder ==
  \A i \in Triggers :
    /\ IsPrefix(trig[i].log, StepOrder)
    /\ Len(trig[i].log) >= 2 => trig[i].pf >= 1
    /\ Dispatched(trig[i]) > 0 => trig[i].pc # "before"
    /\ (Count(trig[i].log, "afterInjection") > 0 \/ Probes(trig[i]) = 2)
       => /\ Dispatched(trig[i]) = Len(injectionPromises(inject))
          /\ \A k \in 1..Len(trig[i].disp) :
               trig[i].disp[k].status = "fulfilled"
    /\ Probes(trig[i]) = 2 => trig[i].pc \in {"probe2", "done"}

C14_Witness ==
  \E i \in Triggers :
    /\ trig[i].pc = "done"
    /\ trig[i].log = <<"probe", "beforeInjection", "executeScript",
                       "insertCSS", "afterInjection", "probe">>
    /\ trig[i].disp[1].payload.files = <<"a.js">>
    /\ trig[i].disp[2].payload.files = <<"b.css">>

\* C15: a trigger is attempted once: at most two probes, at most one round of
\* hooks and dispatches; a successful first probe ends it with nothing
\* else done; the second probe follows the trigger's own injection round.
C15_AttemptedOnce ==
  \A i \in Triggers :
    /\ Probes(trig[i]) <= 2
    /\ Count(trig[i].log, "beforeInjection") <= 1
    /\ Count(trig[i].log, "afterInjection") <= 1
    /\ Dispatched(trig[i]) <= Len(injectionPromises(inject))
    /\ Len(trig[i].disp) = Dispatched(trig[i])
    /\ trig[i].exit = "active"
       => /\ trig[i].pc = "done" /\ trig[i].log = <<"probe">>
          /\ trig[i].disp = <<>> /\ trig[i].pf = 0
    /\ Probes(trig[i]) = 2
       => /\ trig[i].log[Len(trig[i].log)] = "probe"
          /\ Dispatched(trig[i]) = Len(injectionPromises(inject))
          /\ \A k \in 1..Len(trig[i].disp) :
               trig[i].disp[k].target = trig[i].tabId
    /\ trig[i].pc = "done" /\ Effective(trig[i])
       => trig[i].exit \in {"active", "injected"}

C15_Witness ==
  \E i, j \in Triggers :
    /\ trig[i].pc = "done" /\ trig[i].exit = "injected"
    /\ Probes(trig[i]) = 2 /\ trig[i].pf = 2
    /\ trig[j].pc = "done" /\ trig[j].exit = "active"

\* C16: per source list of a round, every option object is one dispatch of
\* its own and all the strings are one files-list dispatch, in their order;
\* a bare string or object counts as a list of one.
Items(sources) ==
  IF ~SourcesTruthy(sources) THEN <<>>
  ELSE IF sources.t = "array" THEN sources.items ELSE <<sources>>
NumStr(items) == Cardinality({k \in 1..Len(items) : items[k].t = "string"})
NumObj(items) == Cardinality({k \in 1..Len(items) : items[k].t # "string"})
Rank(items, k) == Cardinality({j \in 1..k : items[j].t = "string"})
OfKind(disp, kind) == {k \in 1..Len(disp) : disp[k].kind = kind}

Partitioned(disp, kind, items) ==
  LET D == OfKind(disp, kind)
      F == {k \in D : disp[k].payload.v = "files"}
  IN  /\ Cardinality(D) = NumObj(items) + (IF NumStr(items) > 0 THEN 1 ELSE 0)
      /\ Cardinality(F) = (IF NumStr(items) > 0 THEN 1 ELSE 0)
      /\ \A k \in F :
           /\ Len(disp[k].payload.files) = NumStr(items)
           /\ \A j \in 1..Len(items) :
                items[j].t = "string"
                => disp[k].payload.files[Rank(items, j)] = items[j].v
      /\ \A j \in 1..Len(items) :
           items[j].t # "string"
           => Cardinality({k \in D : /\ disp[k].payload.v = items[j].v
                                     /\ disp[k].payload.files = items[j].files})
              = 1

C16_DispatchPartition ==
  \A i \in Triggers :
    Dispatched(trig[i]) > 0
    => /\ Partitioned(trig[i].disp, "executeScript", Items(inject.scripts))
       /\ Partitioned(trig[i].disp, "insertCSS", Items(inject.styles))

C16_Witness ==
  \E i \in Triggers : \E k \in 1..Len(trig[i].disp) :
    /\ trig[i].disp[k].payload.v = "files"
    /\ trig[i].disp[k].payload.files = <<"a.js", "lib.js">>
    /\ Len(trig[i].disp) = 1

\* C17: the Controller remembers nothing: with non-overlapping triggers, a
\* trigger that finds its tab without listener (first use, or after a
\* reload) injects, every other one does not, so there is one injection
\* round per load of the tab.
Calm ==
  /\ faults = {}
  /\ \A i \in Triggers :
       /\ trig[i].exit \notin {"hook", "dispatch"}
       /\ \A k \in 1..Len(trig[i].disp) : trig[i].disp[k].status # "rejected"

C17_OneRoundPerLoad ==
  (Calm /\ cfg.scriptId = Undef /\ content.scriptId = Undef
     /\ RoundRegisters = 1)
  => /\ \A i \in Triggers :
          (Effective(trig[i]) /\ trig[i].pc = "done")
          => /\ trig[i].cb = 1
             /\ trig[i].exit = IF trig[i].live = {} THEN "injected" ELSE "active"
     /\ \A i, j \in Triggers :
          (i # j /\ trig[i].tabId = trig[j].tabId
             /\ trig[i].epoch = trig[j].epoch)
          => ~(Dispatched(trig[i]) > 0 /\ Dispatched(trig[j]) > 0)

C17_Witness ==
  /\ Calm /\ cfg.scriptId = Undef /\ content.scriptId = Undef
  /\ RoundRegisters = 1 /\ reloads = 1
  /\ trig[1].tabId = trig[2].tabId
  /\ trig[1].epoch = 0 /\ trig[1].pc = "done" /\ trig[1].exit = "injected"
  /\ trig[2].epoch = 1 /\ trig[2].pc = "done" /\ trig[2].exit = "injected"

\* C18: triggers on different tabs are independent: the probes and the
\* dispatches of a trigger go to its own tab, listeners appear only in tabs
\* a trigger has injected into, and a trigger alone on a cold tab injects
\* whatever the state of the other tabs.
AloneOnTab(i) ==
  \A j \in Triggers : j # i => trig[j].tabId # trig[i].tabId

C18_TargetsIndependent ==
  /\ \A i \in Triggers :
       /\ Probes(trig[i]) > 0 => trig[i].to = trig[i].tab.id
       /\ \A k \in 1..Len(trig[i].disp) :
            trig[i].disp[k].target = trig[i].tab.id
       /\ (Effective(trig[i]) /\ AloneOnTab(i) /\ "channel" \notin faults
             /\ trig[i].live = {} /\ trig[i].epoch = reloads
             /\ (trig[i].pc # "probe1"))
          => trig[i].pf >= 1 /\ trig[i].exit # "active"
  /\ \A tb \in TabIds :
       agents[tb] # <<>>
       => \E i \in Triggers : trig[i].tab.id = tb /\ Dispatched(trig[i]) > 0

C18_Witness ==
  \E i, j \in Triggers :
    /\ trig[i].tabId # trig[j].tabId
    /\ trig[i].pc = "done" /\ trig[i].exit = "injected"
    /\ agents[trig[i].tabId] # <<>>
    /\ Effective(trig[j]) /\ trig[j].pc = "done" /\ trig[j].exit = "injected"
    /\ "channel" \notin faults

\* C19: whatever the interleaving of the triggers on a tab, each trigger
\* causes exactly one invocation of the activation callback.
C19_OneActivationPerTrigger ==
  (faults \subseteq {"overlap"} /\ reloads = 0
     /\ cfg.scriptId = Undef /\ content.scriptId = Undef
     /\ RoundRegisters = 1
     /\ \A i \in Triggers :
          /\ trig[i].exit \notin {"hook", "dispatch"}
          /\ \A k \in 1..Len(trig[i].disp) : trig[i].disp[k].status # "rejected")
  => \A i \in Triggers :
       (Effective(trig[i]) /\ trig[i].pc = "done") => trig[i].cb = 1

\* C20: a listener whose callback throws sends no response, so the trigger
\* whose first probe it was handles an already injected tab as a cold one
\* and injects again.
C20_ThrowingCallbackNoReply ==
  /\ \A k \in 1..Len(handled) :
       (handled[k].run.called /\ handled[k].run.threw)
       => ~handled[k].run.responded
  /\ \A i \in Triggers :
       trig[i].thrown
       => IF trig[i].pc = "probe1"
          THEN trig[i].resp \in {Rejected, Resolved(Primitive)}
          ELSE /\ trig[i].pf >= 1 /\ trig[i].exit # "active"
               /\ InjectionBegun(trig[i])

C20_Witness ==
  \E i \in Triggers :
    /\ trig[i].thrown /\ trig[i].live # {}
    /\ content.scriptId = Undef
    /\ Dispatched(trig[i]) > 0
    /\ \E k \in 1..Len(trig[i].disp) : trig[i].disp[k].status = "fulfilled"

====
